---- MODULE Spec2Model ----
(***************************************************************************)
(* Model of core/server/src/api_server/event_notify.rs: the                *)
(* OperationNotifier that parks one-shot waiters for transactions and      *)
(* priority operations and releases them when a block is committed or      *)
(* verified.                                                               *)
(*                                                                         *)
(* A waiter (oneshot::Sender) is a natural number: the k-th subscription   *)
(* taken from the subscription feed carries waiter k.  The registry is the *)
(* four BTreeMaps of the struct, each a function from the keys present to  *)
(* the Vec of waiters.  `sent` is the log of every oneshot send the        *)
(* notifier executes, in execution order, tagged with the function that    *)
(* executed it, and `dropped` the senders that went out of scope unsent.    *)
(* `requests` is the history of subscriptions processed.  `gone` holds the  *)
(* waiters whose receiver was dropped by the caller and `received` the     *)
(* sends that reached a live receiver.  `feeds` and `finished` are the two  *)
(* source streams and the future that run returns.  `pc`, `pending`,        *)
(* `arrived` and `yielded` belong to the loop taken one step of a handler *)
(* at a time (StepSpec): in Spec and LoopSpec an input arrives, is         *)
(* yielded and is handled in one step.                                     *)
(*                                                                         *)
(* The store behind db_pool is an external collaborator: every query made  *)
(* while a subscription is handled is answered by a value drawn from the   *)
(* answers the storage API can give for the key that was asked.            *)
(***************************************************************************)
EXTENDS Integers, Sequences, FiniteSets, TLC

\* ------------------------------------------------------------------------
\* Bounds of the model
\* ------------------------------------------------------------------------

\* event_notify.rs:8 sets 4096; the model keeps the comparison and scales
\* the capacity down so that a full bucket is reachable.
MAX_LISTENERS_PER_ENTITY == 2

\* Number of subscriptions taken from the subscription feed.
MaxWaiters == 3

\* Longest block_transactions of a dispatched block.
MaxBlockTxs == 2

\* Number of items that arrive on each source stream of the stepwise loop.
MaxArrived == 2

\* ------------------------------------------------------------------------
\* Rust's Option and Result
\* ------------------------------------------------------------------------

None == <<>>
Some(x) == <<x>>
Unwrap(opt) == opt[1]

Ok(x) == [tag |-> "Ok", value |-> x]
Err == [tag |-> "Err"]

\* Result::ok
ResultOk(r) == IF r.tag = "Ok" THEN Some(r.value) ELSE None

\* Option::unwrap_or
UnwrapOr(opt, default) == IF opt = None THEN default ELSE Unwrap(opt)

\* ------------------------------------------------------------------------
\* Integers of fixed width.  A 64-bit value is kept as its two 32-bit
\* halves, so that `as u32` is the projection on the low half.
\* ------------------------------------------------------------------------

Word64(hi, lo) == [hi |-> hi, lo |-> lo]

\* `x as u32` for a 64-bit x (lines 103, 119)
AsU32(x) == x.lo

\* `n as i64` for a u32 n (lines 172, 194)
AsI64(n) == Word64(0, n)

\* ------------------------------------------------------------------------
\* Entity identities and the inputs of the two feeds
\* ------------------------------------------------------------------------

HASH_LEN == 32

HashA == [i \in 1..HASH_LEN |-> 171]
HashB == [i \in 1..HASH_LEN |-> IF i = 1 THEN 0 ELSE 15]
Hashes == {HashA, HashB}

\* Two serial ids that differ only above bit 31.
SerialIds == {Word64(0, 7), Word64(1, 7)}

BlockNumbers == {3, 10}

HexDigits == <<"0", "1", "2", "3", "4", "5", "6", "7",
               "8", "9", "a", "b", "c", "d", "e", "f">>

HexByte(b) == HexDigits[(b \div 16) + 1] \o HexDigits[(b % 16) + 1]

RECURSIVE HexFrom(_, _)
HexFrom(bytes, i) ==
    IF i > Len(bytes) THEN "" ELSE HexByte(bytes[i]) \o HexFrom(bytes, i + 1)

\* hex::encode
HexEncode(bytes) == HexFrom(bytes, 1)

\* EventSubscribe, without the notify field
SubscriptionRequests ==
    [kind : {"Transaction"}, hash : Hashes, commit : BOOLEAN]
    \cup [kind : {"PriorityOp"}, serial_id : SerialIds, commit : BOOLEAN]

WithNotify(req, notify) ==
    IF req.kind = "Transaction"
    THEN [kind |-> req.kind, hash |-> req.hash, commit |-> req.commit,
          notify |-> notify]
    ELSE [kind |-> req.kind, serial_id |-> req.serial_id,
          commit |-> req.commit, notify |-> notify]

\* ExecutedOperations: one transaction that succeeded, one that failed
ExecutedTxs ==
    {[kind |-> "Tx", hash |-> HashA, success |-> TRUE, fail_reason |-> None],
     [kind |-> "Tx", hash |-> HashB, success |-> FALSE,
      fail_reason |-> Some("nonce mismatch")]}

ExecutedPriorityOps ==
    {[kind |-> "PriorityOp", serial_id |-> s] : s \in SerialIds}

ExecutedOperations == ExecutedTxs \cup ExecutedPriorityOps

BlockTransactions ==
    UNION {[1..n -> ExecutedOperations] : n \in 0..MaxBlockTxs}

\* Operation: the action and the block it is about
Operations ==
    [action : {"Commit", "Verify"},
     block : [block_number : BlockNumbers,
              block_transactions : BlockTransactions]]

\* hex::encode of every hash of the model
HexOf == [h \in Hashes |-> HexEncode(h)]

\* ------------------------------------------------------------------------
\* The store, as seen through db_pool by one call of handle_subscription
\* ------------------------------------------------------------------------

StoredBlockNumbers == {3}

\* TxReceiptResponse rows the store can hold for a hash
StoredReceipts(hash) ==
    {[tx_hash |-> HexOf[hash], block_number |-> AsI64(b), success |-> TRUE,
      fail_reason |-> None, verified |-> v, prover_run |-> None]
        : b \in StoredBlockNumbers, v \in BOOLEAN}

\* access_storage() and tx_receipt(hash), lines 60-64
TxStoreViews(hash) ==
    {[access_storage |-> Err]}
    \cup {[access_storage |-> Ok("storage"), tx_receipt |-> r]
            : r \in {Err, Ok(None)}
                    \cup {Ok(Some(x)) : x \in StoredReceipts(hash)}}

\* Rows get_executed_priority_op(key) can return: the row stored under key
StoredExecutedPriorityOps(key) ==
    {[priority_op_serialid |-> Word64(0, key), block_number |-> AsI64(b)]
        : b \in StoredBlockNumbers}

\* Rows load_stored_op_with_block_number(block_number, VERIFY) can return
StoredVerifyOps(block_number) ==
    {[block_number |-> block_number, action_type |-> "VERIFY",
      confirmed |-> c] : c \in BOOLEAN}

\* access_storage(), get_executed_priority_op(key), and for a row found,
\* access_storage() and load_stored_op_with_block_number, lines 102-122
PriorityOpStoreViews(key) ==
    {[access_storage |-> Err]}
    \cup {[access_storage |-> Ok("storage"), executed_op |-> r]
            : r \in {Err, Ok(None)}}
    \cup {[access_storage |-> Ok("storage"), executed_op |-> Ok(Some(e)),
           access_storage_verify |-> Err]
            : e \in StoredExecutedPriorityOps(key)}
    \cup UNION {
          {[access_storage |-> Ok("storage"), executed_op |-> Ok(Some(e)),
            access_storage_verify |-> Ok("storage"), stored_op |-> o]
              : o \in {None} \cup
                      {Some(v) : v \in StoredVerifyOps(AsU32(e.block_number))}}
          : e \in StoredExecutedPriorityOps(key)}

\* The store answers a subscription can meet
StoreViews(req) ==
    IF req.kind = "Transaction"
    THEN TxStoreViews(req.hash)
    ELSE PriorityOpStoreViews(AsU32(req.serial_id))

\* ------------------------------------------------------------------------
\* BTreeMap and oneshot
\* ------------------------------------------------------------------------

EmptyMap == [k \in {} |-> <<>>]

\* BTreeMap::remove: the value removed and the map left
MapTake(map, key) == IF key \in DOMAIN map THEN Some(map[key]) ELSE None
MapWithout(map, key) == [k \in DOMAIN map \ {key} |-> map[k]]

\* BTreeMap::insert
MapInsert(map, key, value) ==
    [k \in DOMAIN map \cup {key} |-> IF k = key THEN value ELSE map[k]]

\* oneshot::Sender::send(value).unwrap_or_default(): the send is logged; it
\* returns Err(value) when the receiver is gone, and the result is discarded
Send(self, ch, value, at) ==
    [self EXCEPT
        !.sent = Append(@, [to |-> ch, value |-> value, at |-> at]),
        !.received = IF ch \in self.gone
                     THEN @
                     ELSE Append(@, [to |-> ch, value |-> value])]

RECURSIVE SendAllStopOnError(_, _, _, _, _)
\* Faulty variant of SendAll: the first failed send ends the loop.
SendAllStopOnError(self, channels, i, value, at) ==
    IF i > Len(channels) THEN self
    ELSE IF channels[i] \in self.gone
    THEN Send(self, channels[i], value, at)
    ELSE SendAllStopOnError(Send(self, channels[i], value, at), channels,
                            i + 1, value, at)

RECURSIVE SendAllReversed(_, _, _, _, _)
\* Faulty variant of SendAll: the channels are served last to first.
SendAllReversed(self, channels, i, value, at) ==
    IF i > Len(channels) THEN self
    ELSE SendAllReversed(
            Send(self, channels[Len(channels) + 1 - i], value, at),
            channels, i + 1, value, at)

RECURSIVE SendAll(_, _, _, _, _)
\* for ch in channels { ch.send(value.clone()).unwrap_or_default(); }
SendAll(self, channels, i, value, at) ==
    IF i > Len(channels) THEN self
    ELSE SendAll(Send(self, channels[i], value, at), channels, i + 1,
                 value, at)

\* ------------------------------------------------------------------------
\* OperationNotifier
\* ------------------------------------------------------------------------

VARIABLES
    tx_commit_subs,        \* BTreeMap<[u8; 32], Vec<Sender>>
    prior_op_commit_subs,  \* BTreeMap<u64, Vec<Sender>>
    tx_verify_subs,        \* BTreeMap<[u8; 32], Vec<Sender>>
    prior_op_verify_subs,  \* BTreeMap<u64, Vec<Sender>>
    sent,                  \* every send executed: [to, value, at]
    dropped,               \* senders dropped without a send
    requests,              \* subscriptions processed; waiter k made the k-th
    received,              \* the sends that reached a receiver: [to, value]
    gone,                  \* waiters whose receiver the caller has dropped
    feeds,                 \* the two source streams: "open" or "ended"
    finished,              \* the future returned by run has resolved
    pc,                    \* where the loop's task stands
    pending,               \* the items each source stream holds ready
    arrived,               \* how many items have arrived on each stream
    yielded                \* the items the merged stream has yielded: [feed, n]

vars == <<tx_commit_subs, prior_op_commit_subs, tx_verify_subs,
          prior_op_verify_subs, sent, dropped, requests, received, gone,
          feeds, finished, pc, pending, arrived, yielded>>

\* The notifier's fields, with the send log, as one value
Self ==
    [tx_commit_subs |-> tx_commit_subs,
     prior_op_commit_subs |-> prior_op_commit_subs,
     tx_verify_subs |-> tx_verify_subs,
     prior_op_verify_subs |-> prior_op_verify_subs,
     sent |-> sent,
     dropped |-> dropped,
     received |-> received,
     gone |-> gone]

\* Faulty variant of RegisterIn: the push is not guarded by the capacity check.
RegisterInUnbounded(self, mapping, key, notify) ==
    LET removed == UnwrapOr(MapTake(self[mapping], key), <<>>)
        without == MapWithout(self[mapping], key)
    IN  [self EXCEPT
            ![mapping] = MapInsert(without, key, Append(removed, notify))]

\* Faulty variant of RegisterIn: a full bucket makes room by evicting its oldest
\* waiter.
RegisterInEvictOldest(self, mapping, key, notify) ==
    LET removed == UnwrapOr(MapTake(self[mapping], key), <<>>)
        without == MapWithout(self[mapping], key)
    IN  IF Len(removed) < MAX_LISTENERS_PER_ENTITY
        THEN [self EXCEPT
                ![mapping] = MapInsert(without, key, Append(removed, notify))]
        ELSE [self EXCEPT
                ![mapping] = MapInsert(without, key,
                                       Append(Tail(removed), notify)),
                !.dropped = @ \cup {Head(removed)}]

\* lines 78-85 (and 87-94, 133-140, 142-149, one per mapping):
\* remove(key).unwrap_or_default(); push unless full; insert.  A sender that
\* is not pushed goes out of scope at the end of the match arm.
RegisterIn(self, mapping, key, notify) ==
    LET removed == UnwrapOr(MapTake(self[mapping], key), <<>>)
        without == MapWithout(self[mapping], key)
    IN  IF Len(removed) < MAX_LISTENERS_PER_ENTITY
        THEN [self EXCEPT
                ![mapping] = MapInsert(without, key, Append(removed, notify))]
        ELSE [self EXCEPT
                ![mapping] = MapInsert(without, key, removed),
                !.dropped = @ \cup {notify}]

\* lines 60-64: the receipt the store gives, None on any failure
LookupTxReceipt(db) ==
    IF ResultOk(db.access_storage) = None THEN None
    ELSE UnwrapOr(ResultOk(db.tx_receipt), None)

\* lines 102-106: the executed priority op the store gives
LookupExecutedOp(db) ==
    IF ResultOk(db.access_storage) = None THEN None
    ELSE UnwrapOr(ResultOk(db.executed_op), None)

\* lines 116-122: the VERIFY action of the block the op was executed in
LookupBlockVerify(db) ==
    IF ResultOk(db.access_storage_verify) = None THEN None
    ELSE db.stored_op

\* Faulty variant of HandleTxSubscription: a verify-level request is answered with
\* any receipt, verified or not.
HandleTxSubscriptionAnyReceipt(self, new_sub, db) ==
    LET receipt == LookupTxReceipt(db)
        notify == new_sub.notify
    IN  IF receipt # None
        THEN Send(self, notify, Unwrap(receipt), "handle_subscription")
        ELSE IF new_sub.commit
        THEN RegisterIn(self, "tx_commit_subs", new_sub.hash, notify)
        ELSE RegisterIn(self, "tx_verify_subs", new_sub.hash, notify)

\* Faulty variant of HandleTxSubscription: the two early returns after the sends
\* are missing, so an answered waiter is registered as well.
HandleTxSubscriptionFallThrough(self, new_sub, db) ==
    LET receipt == LookupTxReceipt(db)
        notify == new_sub.notify
        answered ==
            IF receipt # None /\ (new_sub.commit \/ Unwrap(receipt).verified)
            THEN Send(self, notify, Unwrap(receipt), "handle_subscription")
            ELSE self
    IN  IF new_sub.commit
        THEN RegisterIn(answered, "tx_commit_subs", new_sub.hash, notify)
        ELSE RegisterIn(answered, "tx_verify_subs", new_sub.hash, notify)

\* Faulty variant of HandleTxSubscription: a failed access_storage() returns from
\* the handler, and the waiter goes out of scope.
HandleTxSubscriptionReturnOnError(self, new_sub, db) ==
    LET receipt == LookupTxReceipt(db)
        notify == new_sub.notify
    IN  IF ResultOk(db.access_storage) = None
        THEN [self EXCEPT !.dropped = @ \cup {notify}]
        ELSE IF receipt # None /\ new_sub.commit
        THEN Send(self, notify, Unwrap(receipt), "handle_subscription")
        ELSE IF receipt # None /\ Unwrap(receipt).verified
        THEN Send(self, notify, Unwrap(receipt), "handle_subscription")
        ELSE IF new_sub.commit
        THEN RegisterIn(self, "tx_commit_subs", new_sub.hash, notify)
        ELSE RegisterIn(self, "tx_verify_subs", new_sub.hash, notify)

\* lines 54-96
HandleTxSubscription(self, new_sub, db) ==
    LET receipt == LookupTxReceipt(db)
        notify == new_sub.notify
    IN  IF receipt # None /\ new_sub.commit
        THEN Send(self, notify, Unwrap(receipt), "handle_subscription")
        ELSE IF receipt # None /\ Unwrap(receipt).verified
        THEN Send(self, notify, Unwrap(receipt), "handle_subscription")
        ELSE IF new_sub.commit
        THEN RegisterIn(self, "tx_commit_subs", new_sub.hash, notify)
        ELSE RegisterIn(self, "tx_verify_subs", new_sub.hash, notify)

\* Faulty variant of HandlePriorityOpSubscription: the two register blocks
\* insert into each other's mapping.
HandlePriorityOpSubscriptionSwapped(self, new_sub, db) ==
    LET executed_op == LookupExecutedOp(db)
        notify == new_sub.notify
        prior_op_status ==
            [executed |-> TRUE,
             block |-> Some(Unwrap(executed_op).block_number)]
        block_verify == LookupBlockVerify(db)
    IN  IF executed_op # None /\ new_sub.commit
        THEN Send(self, notify, prior_op_status, "handle_subscription")
        ELSE IF /\ executed_op # None
                /\ block_verify # None
                /\ Unwrap(block_verify).confirmed
        THEN Send(self, notify, prior_op_status, "handle_subscription")
        ELSE IF new_sub.commit
        THEN RegisterIn(self, "prior_op_verify_subs", new_sub.serial_id,
                        notify)
        ELSE RegisterIn(self, "prior_op_commit_subs", new_sub.serial_id,
                        notify)

\* Faulty variant of HandlePriorityOpSubscription: any stored VERIFY action
\* of the block satisfies a verify-level subscription, confirmed or not.
HandlePriorityOpSubscriptionAnyVerify(self, new_sub, db) ==
    LET executed_op == LookupExecutedOp(db)
        notify == new_sub.notify
        prior_op_status ==
            [executed |-> TRUE,
             block |-> Some(Unwrap(executed_op).block_number)]
        block_verify == LookupBlockVerify(db)
    IN  IF executed_op # None /\ new_sub.commit
        THEN Send(self, notify, prior_op_status, "handle_subscription")
        ELSE IF executed_op # None /\ block_verify # None
        THEN Send(self, notify, prior_op_status, "handle_subscription")
        ELSE IF new_sub.commit
        THEN RegisterIn(self, "prior_op_commit_subs", new_sub.serial_id,
                        notify)
        ELSE RegisterIn(self, "prior_op_verify_subs", new_sub.serial_id,
                        notify)

\* lines 97-151
HandlePriorityOpSubscription(self, new_sub, db) ==
    LET executed_op == LookupExecutedOp(db)
        notify == new_sub.notify
        prior_op_status ==
            [executed |-> TRUE,
             block |-> Some(Unwrap(executed_op).block_number)]
        block_verify == LookupBlockVerify(db)
    IN  IF executed_op # None /\ new_sub.commit
        THEN Send(self, notify, prior_op_status, "handle_subscription")
        ELSE IF /\ executed_op # None
                /\ block_verify # None
                /\ Unwrap(block_verify).confirmed
        THEN Send(self, notify, prior_op_status, "handle_subscription")
        ELSE IF new_sub.commit
        THEN RegisterIn(self, "prior_op_commit_subs", new_sub.serial_id,
                        notify)
        ELSE RegisterIn(self, "prior_op_verify_subs", new_sub.serial_id,
                        notify)

\* lines 52-153
handle_subscription(self, new_sub, db) ==
    IF new_sub.kind = "Transaction"
    THEN HandleTxSubscription(self, new_sub, db)
    ELSE HandlePriorityOpSubscription(self, new_sub, db)

\* Action::get_type
GetType(action) == IF action = "Commit" THEN "COMMIT" ELSE "VERIFY"

\* Faulty variant of TxReceiptOf: verified compares with the wrong action type.
TxReceiptOfWrongType(op, tx) ==
    [tx_hash |-> HexOf[tx.hash],
     block_number |-> AsI64(op.block.block_number),
     success |-> tx.success,
     fail_reason |-> tx.fail_reason,
     verified |-> (GetType(op.action) = "COMMIT"),
     prover_run |-> None]

\* lines 170-177
TxReceiptOf(op, tx) ==
    [tx_hash |-> HexOf[tx.hash],
     block_number |-> AsI64(op.block.block_number),
     success |-> tx.success,
     fail_reason |-> tx.fail_reason,
     verified |-> (GetType(op.action) = "VERIFY"),
     prover_run |-> None]

\* lines 192-195
PriorityOpStatusOf(op) ==
    [executed |-> TRUE, block |-> Some(AsI64(op.block.block_number))]

\* Faulty variant of NotifyTx: the bucket is read with get, not taken with remove.
NotifyTxKeepBucket(self, op, commit, tx) ==
    LET taken == IF commit
                 THEN MapTake(self.tx_commit_subs, tx.hash)
                 ELSE MapTake(self.tx_verify_subs, tx.hash)
    IN  IF taken = None THEN self
        ELSE SendAll(self, Unwrap(taken), 1, TxReceiptOf(op, tx),
                     "handle_new_block")

\* Faulty variant of NotifyTx: a Verify releases the commit-level waiters of
\* the transaction as well.
NotifyTxVerifyReleasesCommit(self, op, commit, tx) ==
    LET taken == IF commit
                 THEN MapTake(self.tx_commit_subs, tx.hash)
                 ELSE MapTake(self.tx_verify_subs, tx.hash)
        below == IF commit THEN None
                 ELSE MapTake(self.tx_commit_subs, tx.hash)
        left == IF commit
                THEN [self EXCEPT !.tx_commit_subs = MapWithout(@, tx.hash)]
                ELSE [self EXCEPT !.tx_verify_subs = MapWithout(@, tx.hash),
                                  !.tx_commit_subs = MapWithout(@, tx.hash)]
    IN  SendAll(left, UnwrapOr(taken, <<>>) \o UnwrapOr(below, <<>>), 1,
                TxReceiptOf(op, tx), "handle_new_block")

\* lines 162-182: one executed transaction of the block
NotifyTx(self, op, commit, tx) ==
    LET taken == IF commit
                 THEN MapTake(self.tx_commit_subs, tx.hash)
                 ELSE MapTake(self.tx_verify_subs, tx.hash)
        left == IF commit
                THEN [self EXCEPT !.tx_commit_subs = MapWithout(@, tx.hash)]
                ELSE [self EXCEPT !.tx_verify_subs = MapWithout(@, tx.hash)]
    IN  IF taken = None THEN left
        ELSE SendAll(left, Unwrap(taken), 1, TxReceiptOf(op, tx),
                     "handle_new_block")

\* Faulty variant of NotifyPriorityOp: the bucket is emptied in place and its key
\* stays in the mapping.
NotifyPriorityOpLeaveEmpty(self, op, commit, prior_op) ==
    LET id == prior_op.serial_id
        taken == IF commit
                 THEN MapTake(self.prior_op_commit_subs, id)
                 ELSE MapTake(self.prior_op_verify_subs, id)
        left == IF commit
                THEN [self EXCEPT
                        !.prior_op_commit_subs = MapInsert(@, id, <<>>)]
                ELSE [self EXCEPT
                        !.prior_op_verify_subs = MapInsert(@, id, <<>>)]
    IN  IF taken = None THEN self
        ELSE SendAll(left, Unwrap(taken), 1, PriorityOpStatusOf(op),
                     "handle_new_block")

\* lines 183-201: one executed priority operation of the block
NotifyPriorityOp(self, op, commit, prior_op) ==
    LET id == prior_op.serial_id
        taken == IF commit
                 THEN MapTake(self.prior_op_commit_subs, id)
                 ELSE MapTake(self.prior_op_verify_subs, id)
        left == IF commit
                THEN [self EXCEPT !.prior_op_commit_subs = MapWithout(@, id)]
                ELSE [self EXCEPT !.prior_op_verify_subs = MapWithout(@, id)]
    IN  IF taken = None THEN left
        ELSE SendAll(left, Unwrap(taken), 1, PriorityOpStatusOf(op),
                     "handle_new_block")

\* lines 161-202: the body of the loop over block_transactions
NotifyExecuted(self, op, commit, tx) ==
    IF tx.kind = "Tx"
    THEN NotifyTx(self, op, commit, tx)
    ELSE NotifyPriorityOp(self, op, commit, tx)

RECURSIVE NotifyFrom(_, _, _, _)
\* lines 160-203: for tx in op.block.block_transactions
NotifyFrom(self, op, commit, i) ==
    IF i > Len(op.block.block_transactions) THEN self
    ELSE NotifyFrom(
            NotifyExecuted(self, op, commit, op.block.block_transactions[i]),
            op, commit, i + 1)

\* Faulty variant of IsCommit: the two arms of the match are exchanged.
IsCommitExchanged(op) == op.action = "Verify"

\* lines 155-158
IsCommit(op) == op.action = "Commit"

\* lines 154-205
handle_new_block(self, op) == NotifyFrom(self, op, IsCommit(op), 1)

\* ------------------------------------------------------------------------
\* The event loop: one input at a time (lines 39-49, 207-226)
\* ------------------------------------------------------------------------

Install(self) ==
    /\ tx_commit_subs' = self.tx_commit_subs
    /\ prior_op_commit_subs' = self.prior_op_commit_subs
    /\ tx_verify_subs' = self.tx_verify_subs
    /\ prior_op_verify_subs' = self.prior_op_verify_subs
    /\ sent' = self.sent
    /\ dropped' = self.dropped
    /\ received' = self.received
    /\ gone' = self.gone

\* Faulty variant of SelectDone: the merged stream ends with the first of
\* its two streams.
SelectDoneEither(f) ==
    f.new_block_stream = "ended" \/ f.subscription_stream = "ended"

\* line 224, Stream::select: the merged stream ends when both streams have
\* ended
SelectDone(f) ==
    f.new_block_stream = "ended" /\ f.subscription_stream = "ended"

\* The loop's task is between two inputs: the closure of run has returned
AtPoll == [at |-> "poll"]

\* start_sub_notifier, lines 215-221
Init ==
    /\ tx_commit_subs = EmptyMap
    /\ prior_op_commit_subs = EmptyMap
    /\ tx_verify_subs = EmptyMap
    /\ prior_op_verify_subs = EmptyMap
    /\ sent = <<>>
    /\ dropped = {}
    /\ requests = <<>>
    /\ received = <<>>
    /\ gone = {}
    /\ feeds = [new_block_stream |-> "open", subscription_stream |-> "open"]
    /\ finished = FALSE
    /\ pc = AtPoll
    /\ pending = [new_block_stream |-> <<>>, subscription_stream |-> <<>>]
    /\ arrived = [new_block_stream |-> 0, subscription_stream |-> 0]
    /\ yielded = <<>>

\* The waiter the next subscription carries
NextWaiter == Len(requests) + 1

\* line 45: BlockNotifierInput::EventSubscription(sub)
EventSubscription(req, db) ==
    /\ ~finished
    /\ feeds.subscription_stream = "open"
    /\ Len(requests) < MaxWaiters
    /\ Install(handle_subscription(Self, WithNotify(req, NextWaiter), db))
    /\ requests' = Append(requests, req)
    /\ UNCHANGED <<feeds, finished, pc, pending, arrived, yielded>>

\* line 46: BlockNotifierInput::NewOperationCommited(op)
NewOperationCommited(op) ==
    /\ ~finished
    /\ feeds.new_block_stream = "open"
    /\ Install(handle_new_block(Self, op))
    /\ UNCHANGED <<requests, feeds, finished, pc, pending, arrived, yielded>>

Subscribe ==
    \E req \in SubscriptionRequests : \E db \in StoreViews(req) :
        EventSubscription(req, db)

NewBlock == \E op \in Operations : NewOperationCommited(op)

Next == Subscribe \/ NewBlock

Spec == Init /\ [][Next]_vars

\* ------------------------------------------------------------------------
\* The event loop with its surroundings: the callers that drop their
\* receivers and the two streams that end.  The inputs are drawn from
\* smaller sets than those of Spec.
\* ------------------------------------------------------------------------

LoopRequests ==
    {[kind |-> "Transaction", hash |-> HashA, commit |-> TRUE],
     [kind |-> "Transaction", hash |-> HashA, commit |-> FALSE],
     [kind |-> "PriorityOp", serial_id |-> Word64(0, 7), commit |-> TRUE]}

LoopExecuted ==
    ExecutedTxs \cup {[kind |-> "PriorityOp", serial_id |-> Word64(0, 7)]}

LoopOperations ==
    [action : {"Commit", "Verify"},
     block : [block_number : {10},
              block_transactions :
                  UNION {[1..n -> LoopExecuted] : n \in 0..MaxBlockTxs}]]

\* Faulty variant of ReceiverDropped: a waiter whose receiver is gone is
\* pruned from the bucket it is parked in.
ReceiverDroppedPrunes(self, w) ==
    LET Pruned(map) ==
            [k \in DOMAIN map |-> SelectSeq(map[k], LAMBDA x : x # w)]
    IN  [self EXCEPT
            !.gone = @ \cup {w},
            !.tx_commit_subs = Pruned(@),
            !.tx_verify_subs = Pruned(@),
            !.prior_op_commit_subs = Pruned(@),
            !.prior_op_verify_subs = Pruned(@)]

\* The caller drops the oneshot::Receiver of waiter w.  The notifier holds
\* the Sender only (lines 14, 19) and has no code that watches the receiver
\* (line 51: no removal after a timeout), so nothing of it changes.
ReceiverDropped(self, w) == [self EXCEPT !.gone = @ \cup {w}]

\* A caller gives up: a receiver the notifier has not yet sent to
DropReceiver(w) ==
    /\ w \notin gone
    /\ w \notin dropped
    /\ \A i \in DOMAIN sent : sent[i].to # w
    /\ Install(ReceiverDropped(Self, w))
    /\ UNCHANGED <<requests, feeds, finished, pc, pending, arrived, yielded>>

\* A source stream yields None; run resolves when the merged stream does
EndOfStream(name) ==
    /\ feeds[name] = "open"
    /\ feeds' = [feeds EXCEPT ![name] = "ended"]
    /\ finished' = SelectDone(feeds')
    /\ UNCHANGED <<tx_commit_subs, prior_op_commit_subs, tx_verify_subs,
                   prior_op_verify_subs, sent, dropped, requests, received,
                   gone, pc, pending, arrived, yielded>>

LoopSubscribe ==
    \E req \in LoopRequests : \E db \in StoreViews(req) :
        EventSubscription(req, db)

LoopNewBlock == \E op \in LoopOperations : NewOperationCommited(op)

CallerGivesUp == \E w \in 1..MaxWaiters : DropReceiver(w)

EndOfBlocks == EndOfStream("new_block_stream")

EndOfSubscriptions == EndOfStream("subscription_stream")

LoopNext ==
    \/ LoopSubscribe
    \/ LoopNewBlock
    \/ CallerGivesUp
    \/ EndOfBlocks
    \/ EndOfSubscriptions

LoopSpec == Init /\ [][LoopNext]_vars

\* ------------------------------------------------------------------------
\* The event loop one step at a time: items arrive on the two streams, the
\* merged stream yields one of them, and the handling of a subscription is
\* two steps, its store query and its delivery or registration.
\* ------------------------------------------------------------------------

StepRequests ==
    {[kind |-> "Transaction", hash |-> HashA, commit |-> TRUE],
     [kind |-> "Transaction", hash |-> HashA, commit |-> FALSE]}

StepOperations ==
    [action : {"Commit", "Verify"},
     block : [block_number : {10},
              block_transactions :
                  {<<[kind |-> "Tx", hash |-> HashA, success |-> TRUE,
                      fail_reason |-> None]>>}]]

\* Faulty variant of ReadyToPoll: the merged stream is polled for its next
\* item while the closure is still handling the last one.
ReadyToPollAlways(p) == TRUE

\* lines 43-48, Stream::map and finish: the closure is called with an item
\* and the stream is polled again when the closure has returned
ReadyToPoll(p) == p = AtPoll

\* An item arrives on a source stream, behind the items already there
Arrive(feed, input) ==
    /\ feeds[feed] = "open"
    /\ arrived[feed] < MaxArrived
    /\ arrived' = [arrived EXCEPT ![feed] = @ + 1]
    /\ pending' = [pending EXCEPT
                      ![feed] = Append(@, [n |-> arrived[feed] + 1,
                                           input |-> input])]
    /\ UNCHANGED <<tx_commit_subs, prior_op_commit_subs, tx_verify_subs,
                   prior_op_verify_subs, sent, dropped, requests, received,
                   gone, feeds, finished, pc, yielded>>

\* The merged stream yields the first item of feed
Yield(feed) ==
    /\ ~finished
    /\ ReadyToPoll(pc)
    /\ pending[feed] # <<>>
    /\ yielded' = Append(yielded,
                         [feed |-> feed, n |-> Head(pending[feed]).n])
    /\ pending' = [pending EXCEPT ![feed] = Tail(@)]

\* lines 45 and 54-62 (102-122): the closure is called with a subscription
\* and handle_subscription has the store's answer db
QueryStore(db) ==
    /\ Yield("subscription_stream")
    /\ LET item == Head(pending.subscription_stream)
       IN  /\ db \in StoreViews(item.input)
           /\ pc' = [at |-> "handle_subscription",
                     input |-> item.input,
                     new_sub |-> WithNotify(item.input, item.n),
                     db |-> db]
    /\ UNCHANGED <<tx_commit_subs, prior_op_commit_subs, tx_verify_subs,
                   prior_op_verify_subs, sent, dropped, requests, received,
                   gone, feeds, finished, arrived>>

\* lines 63-95 (107-150): handle_subscription sends or registers with the
\* answer it has, and the closure returns
ResolveSubscription ==
    /\ pc # AtPoll
    /\ Install(handle_subscription(Self, pc.new_sub, pc.db))
    /\ requests' = Append(requests, pc.input)
    /\ pc' = AtPoll
    /\ UNCHANGED <<feeds, finished, pending, arrived, yielded>>

\* line 46: the closure is called with an operation
DispatchNewBlock ==
    /\ Yield("new_block_stream")
    /\ Install(handle_new_block(Self, Head(pending.new_block_stream).input))
    /\ UNCHANGED <<requests, feeds, finished, pc, arrived>>

SubscriptionArrives ==
    \E req \in StepRequests : Arrive("subscription_stream", req)

NewBlockArrives == \E op \in StepOperations : Arrive("new_block_stream", op)

TakeSubscription ==
    \E db \in UNION {StoreViews(req) : req \in StepRequests} : QueryStore(db)

StepNext ==
    \/ SubscriptionArrives
    \/ NewBlockArrives
    \/ TakeSubscription
    \/ ResolveSubscription
    \/ DispatchNewBlock

StepSpec == Init /\ [][StepNext]_vars

\* ------------------------------------------------------------------------
\* Vocabulary of the properties
\* ------------------------------------------------------------------------

MappingNames == {"tx_commit_subs", "prior_op_commit_subs",
                 "tx_verify_subs", "prior_op_verify_subs"}

\* The four mappings of a notifier value
MappingsOf(self) == [m \in MappingNames |-> self[m]]

\* The waiters of the subscriptions processed so far
Processed == 1..Len(requests)

\* How many sends of a log went to waiter w
SentCount(log, w) == Cardinality({i \in DOMAIN log : log[i].to = w})

\* How many places of the four mappings hold waiter w
Places(self, w) ==
    {<<m, k, i>> \in UNION {UNION {{<<m, k, i>> : i \in DOMAIN self[m][k]}
                                      : k \in DOMAIN self[m]}
                               : m \in MappingNames}
        : self[m][k][i] = w}

Parked(self, w) == Places(self, w) # {}

\* The mapping and the key a request is registered under
MappingFor(req) ==
    IF req.kind = "Transaction"
    THEN (IF req.commit THEN "tx_commit_subs" ELSE "tx_verify_subs")
    ELSE (IF req.commit THEN "prior_op_commit_subs"
                        ELSE "prior_op_verify_subs")

KeyFor(req) == IF req.kind = "Transaction" THEN req.hash ELSE req.serial_id

\* The bucket of a request in a notifier value: empty when there is no key
BucketFor(self, req) ==
    IF KeyFor(req) \in DOMAIN self[MappingFor(req)]
    THEN self[MappingFor(req)][KeyFor(req)]
    ELSE <<>>

BucketFull(self, req) ==
    Len(BucketFor(self, req)) >= MAX_LISTENERS_PER_ENTITY

\* The mapping and the key an executed operation of a dispatch drains
MappingOfExecuted(op, e) ==
    IF e.kind = "Tx"
    THEN (IF op.action = "Commit" THEN "tx_commit_subs"
                                  ELSE "tx_verify_subs")
    ELSE (IF op.action = "Commit" THEN "prior_op_commit_subs"
                                  ELSE "prior_op_verify_subs")

KeyOfExecuted(e) == IF e.kind = "Tx" THEN e.hash ELSE e.serial_id

\* Dispatch op contains the entity of request req at req's level
Confirms(op, req) ==
    \E i \in DOMAIN op.block.block_transactions :
        LET e == op.block.block_transactions[i]
        IN  /\ MappingOfExecuted(op, e) = MappingFor(req)
            /\ KeyOfExecuted(e) = KeyFor(req)

\* The sends a step added to the log
NewSends(before, after) == SubSeq(after, Len(before) + 1, Len(after))

\* The notifier after the next subscription, and after a dispatch
AfterSubscription(req, db) ==
    handle_subscription(Self, WithNotify(req, NextWaiter), db)

AfterNewBlock(op) == handle_new_block(Self, op)

CanSubscribe == Len(requests) < MaxWaiters

\* ------------------------------------------------------------------------
\* C1: at most one send per waiter
\* ------------------------------------------------------------------------

\* C1: in every reachable state every waiter has been sent to at most once,
\* and a waiter that has been sent to (by handle_subscription or by
\* handle_new_block) is in no bucket of any mapping.
C1_AtMostOnce ==
    \A w \in 1..MaxWaiters :
        /\ SentCount(sent, w) <= 1
        /\ SentCount(sent, w) = 1 => ~Parked(Self, w)

\* Two waiters released by dispatches and one answered from the store.
C1_Witness ==
    /\ \E i \in DOMAIN sent : sent[i].at = "handle_subscription"
    /\ Cardinality({i \in DOMAIN sent : sent[i].at = "handle_new_block"}) >= 2

\* ------------------------------------------------------------------------
\* C2: no missed wakeup
\* ------------------------------------------------------------------------

\* C2, as claimed: whenever a dispatch contains the entity of a processed
\* subscription at that subscription's level, the waiter has been sent to
\* by the end of the dispatch.
C2_Original ==
    \A op \in Operations : \A w \in Processed :
        Confirms(op, requests[w])
            => SentCount(AfterNewBlock(op).sent, w) >= 1

\* C2, amended: the same for every waiter that was not dropped, and a
\* subscription drops its waiter only when nothing was sent to it and its
\* bucket already held MAX_LISTENERS_PER_ENTITY waiters.
C2_NoMissedWakeup ==
    /\ \A op \in Operations : \A w \in Processed \ dropped :
          Confirms(op, requests[w])
              => SentCount(AfterNewBlock(op).sent, w) = 1
    /\ CanSubscribe =>
          \A req \in SubscriptionRequests : \A db \in StoreViews(req) :
              LET after == AfterSubscription(req, db)
              IN  NextWaiter \in after.dropped
                      => /\ after.sent = sent
                         /\ BucketFull(Self, req)

\* One waiter answered from the store, a later one for the same entity and
\* level parked, and a dispatch that releases the parked one.
C2_Witness ==
    \E w \in Processed : \E v \in Processed : \E op \in Operations :
        /\ v < w
        /\ requests[v] = requests[w]
        /\ \E i \in DOMAIN sent :
              sent[i].to = v /\ sent[i].at = "handle_subscription"
        /\ Parked(Self, w)
        /\ Confirms(op, requests[w])
        /\ SentCount(AfterNewBlock(op).sent, w) = 1

\* ------------------------------------------------------------------------
\* C3: bounded buckets
\* ------------------------------------------------------------------------

\* C3: in every reachable state every bucket of each of the four mappings
\* holds at most MAX_LISTENERS_PER_ENTITY waiters.
C3_BucketBound ==
    \A m \in MappingNames : \A k \in DOMAIN Self[m] :
        Len(Self[m][k]) <= MAX_LISTENERS_PER_ENTITY

\* A full bucket for which one more subscription was processed.
C3_Witness ==
    \E w \in dropped :
        Len(BucketFor(Self, requests[w])) = MAX_LISTENERS_PER_ENTITY

\* ------------------------------------------------------------------------
\* C4: a subscription that meets a full bucket
\* ------------------------------------------------------------------------

\* C4: a subscription that sends nothing and whose bucket already holds
\* MAX_LISTENERS_PER_ENTITY waiters leaves the four mappings as they were
\* and drops its waiter; a dropped waiter is in no bucket and is never sent
\* to, whatever is dispatched later.
C4_FullBucketDrop ==
    /\ CanSubscribe =>
          \A req \in SubscriptionRequests : \A db \in StoreViews(req) :
              LET after == AfterSubscription(req, db)
              IN  (after.sent = sent /\ BucketFull(Self, req))
                      => /\ MappingsOf(after) = MappingsOf(Self)
                         /\ after.dropped = dropped \cup {NextWaiter}
    /\ \A w \in dropped :
          /\ SentCount(sent, w) = 0
          /\ ~Parked(Self, w)
          /\ \A op \in Operations :
                SentCount(AfterNewBlock(op).sent, w) = 0

\* A waiter was dropped at a full bucket, and a later dispatch drained that
\* bucket without sending to it.
C4_Witness ==
    \E w \in dropped :
        /\ BucketFor(Self, requests[w]) = <<>>
        /\ SentCount(sent, w) = 0
        /\ Len(sent) = MAX_LISTENERS_PER_ENTITY

\* ------------------------------------------------------------------------
\* C5: level correctness of transaction subscriptions
\* ------------------------------------------------------------------------

TxRequests == {req \in SubscriptionRequests : req.kind = "Transaction"}

\* The store returned a receipt to the transaction lookup
StoreGaveReceipt(db) ==
    /\ db.access_storage.tag = "Ok"
    /\ db.tx_receipt.tag = "Ok"
    /\ db.tx_receipt.value # None

GivenReceipt(db) == db.tx_receipt.value[1]

\* The receipt satisfies the level the request asked for
ReceiptSatisfies(req, db) ==
    StoreGaveReceipt(db) /\ (req.commit \/ GivenReceipt(db).verified)

\* The four mappings with waiter w appended to the bucket of req
WithAppended(self, req, w) ==
    [m \in MappingNames |->
        IF m = MappingFor(req)
        THEN MapInsert(self[m], KeyFor(req), Append(BucketFor(self, req), w))
        ELSE self[m]]

\* C5, as claimed: a transaction subscription sends the store's receipt at
\* once exactly when the receipt satisfies its level; otherwise it sends
\* nothing and appends the waiter to the bucket of its own level only.
C5_Original ==
    CanSubscribe =>
        \A req \in TxRequests : \A db \in StoreViews(req) :
            LET after == AfterSubscription(req, db)
            IN  IF ReceiptSatisfies(req, db)
                THEN NewSends(sent, after.sent) =
                        <<[to |-> NextWaiter, value |-> GivenReceipt(db),
                           at |-> "handle_subscription"]>>
                ELSE /\ after.sent = sent
                     /\ MappingsOf(after) = WithAppended(Self, req, NextWaiter)

\* C5, amended: the same, except that the waiter is registered only while
\* its bucket holds fewer than MAX_LISTENERS_PER_ENTITY waiters; at a full
\* bucket nothing is sent and no mapping changes.
C5_TxLevelCorrect ==
    CanSubscribe =>
        \A req \in TxRequests : \A db \in StoreViews(req) :
            LET after == AfterSubscription(req, db)
            IN  IF ReceiptSatisfies(req, db)
                THEN NewSends(sent, after.sent) =
                        <<[to |-> NextWaiter, value |-> GivenReceipt(db),
                           at |-> "handle_subscription"]>>
                ELSE /\ after.sent = sent
                     /\ MappingsOf(after) =
                          IF BucketFull(Self, req)
                          THEN MappingsOf(Self)
                          ELSE WithAppended(Self, req, NextWaiter)

\* A verify-level transaction waiter parked although the store held an
\* unverified receipt could be given: the next verify-level subscription
\* for a hash with a parked waiter meets an unverified receipt and is
\* parked behind it.
C5_Witness ==
    /\ CanSubscribe
    /\ \E req \in TxRequests : \E db \in StoreViews(req) :
          /\ ~req.commit
          /\ StoreGaveReceipt(db)
          /\ ~GivenReceipt(db).verified
          /\ Len(BucketFor(Self, req)) = 1
          /\ Len(BucketFor(AfterSubscription(req, db), req)) = 2

\* ------------------------------------------------------------------------
\* C6: no empty bucket
\* ------------------------------------------------------------------------

\* C6: in every reachable state no mapping holds an empty bucket, and after
\* a dispatch the mapping of each executed operation's kind and the
\* dispatch's level has no key for that operation's identity.
C6_BucketCleanup ==
    /\ \A m \in MappingNames : \A k \in DOMAIN Self[m] : Self[m][k] # <<>>
    /\ \A op \in Operations :
          LET after == AfterNewBlock(op)
          IN  \A i \in DOMAIN op.block.block_transactions :
                 LET e == op.block.block_transactions[i]
                 IN  KeyOfExecuted(e)
                        \notin DOMAIN after[MappingOfExecuted(op, e)]

\* A bucket was drained by a dispatch and its key is gone, while another
\* bucket is still parked.
C6_Witness ==
    \E i \in DOMAIN sent :
        /\ sent[i].at = "handle_new_block"
        /\ BucketFor(Self, requests[sent[i].to]) = <<>>
        /\ \E w \in Processed : Parked(Self, w)

\* ------------------------------------------------------------------------
\* C7: immediate resolution changes no mapping
\* ------------------------------------------------------------------------

\* The value the store's answer stands for: the receipt of a transaction,
\* the status built from the executed row of a priority operation
StoredValue(req, db) ==
    IF req.kind = "Transaction"
    THEN GivenReceipt(db)
    ELSE [executed |-> TRUE,
          block |-> Some(db.executed_op.value[1].block_number)]

\* C7: a subscription that sends at once sends the stored value to its own
\* waiter, exactly once, and leaves the four mappings and the dropped
\* senders as they were; a verify-level transaction subscription that meets
\* a verified receipt does send at once.
C7_ImmediateResolution ==
    CanSubscribe =>
        \A req \in SubscriptionRequests : \A db \in StoreViews(req) :
            LET after == AfterSubscription(req, db)
            IN  /\ after.sent # sent
                    => /\ NewSends(sent, after.sent) =
                            <<[to |-> NextWaiter,
                               value |-> StoredValue(req, db),
                               at |-> "handle_subscription"]>>
                       /\ MappingsOf(after) = MappingsOf(Self)
                       /\ after.dropped = dropped
                /\ ( /\ req.kind = "Transaction"
                     /\ StoreGaveReceipt(db)
                     /\ GivenReceipt(db).verified )
                    => after.sent # sent

\* A verify-level waiter is parked for a hash; the next verify-level
\* subscription for that hash meets a verified receipt, is answered at once
\* and the bucket still holds only the first waiter.
C7_Witness ==
    /\ CanSubscribe
    /\ \E req \in TxRequests : \E db \in StoreViews(req) :
          /\ ~req.commit
          /\ StoreGaveReceipt(db)
          /\ GivenReceipt(db).verified
          /\ Len(BucketFor(Self, req)) = 1
          /\ BucketFor(AfterSubscription(req, db), req) = BucketFor(Self, req)
          /\ Len(AfterSubscription(req, db).sent) = Len(sent) + 1

\* ------------------------------------------------------------------------
\* C8: store failures
\* ------------------------------------------------------------------------

\* A query the handler makes for req fails: the storage cannot be accessed,
\* the lookup returns an error, or (made only for a verify-level priority
\* op whose executed row was found) the block-verify lookup gives nothing
StoreFails(req, db) ==
    \/ db.access_storage.tag = "Err"
    \/ req.kind = "Transaction" /\ db.tx_receipt.tag = "Err"
    \/ req.kind = "PriorityOp" /\ db.executed_op.tag = "Err"
    \/ /\ req.kind = "PriorityOp"
       /\ ~req.commit
       /\ db.executed_op.tag = "Ok"
       /\ db.executed_op.value # None
       /\ \/ db.access_storage_verify.tag = "Err"
          \/ db.stored_op = None

\* C8: a subscription that meets a store failure sends nothing and yields
\* the notifier with the waiter appended to the bucket of its kind,
\* identity and level, or unchanged mappings when that bucket is full; the
\* handler has no other outcome, so the loop takes its next input.
C8_StoreFailure ==
    CanSubscribe =>
        \A req \in SubscriptionRequests : \A db \in StoreViews(req) :
            StoreFails(req, db) =>
                LET after == AfterSubscription(req, db)
                IN  /\ after.sent = sent
                    /\ MappingsOf(after) =
                          IF BucketFull(Self, req)
                          THEN MappingsOf(Self)
                          ELSE WithAppended(Self, req, NextWaiter)
                    /\ after.dropped =
                          IF BucketFull(Self, req)
                          THEN dropped \cup {NextWaiter}
                          ELSE dropped

\* After a dispatch has released a waiter, a subscription meets a failed
\* store and is parked behind a waiter already in its bucket.
C8_Witness ==
    /\ CanSubscribe
    /\ \E i \in DOMAIN sent : sent[i].at = "handle_new_block"
    /\ \E req \in SubscriptionRequests : \E db \in StoreViews(req) :
          /\ StoreFails(req, db)
          /\ Len(BucketFor(Self, req)) = 1
          /\ BucketFor(AfterSubscription(req, db), req) =
                Append(BucketFor(Self, req), NextWaiter)

\* ------------------------------------------------------------------------
\* C9: the outcome a dispatch delivers for a transaction
\* ------------------------------------------------------------------------

Range(seq) == {seq[i] : i \in DOMAIN seq}

HexOfHashA ==
    "abababababababababababababababababababababababababababababababab"

CommitOfBlock10 ==
    [action |-> "Commit",
     block |-> [block_number |-> 10,
                block_transactions |->
                    <<[kind |-> "Tx", hash |-> HashA, success |-> TRUE,
                       fail_reason |-> None]>>]]

ScenarioAOutcome ==
    [tx_hash |-> HexOfHashA, block_number |-> AsI64(10), success |-> TRUE,
     fail_reason |-> None, verified |-> FALSE, prover_run |-> None]

\* C9: every waiter parked for a transaction hash at a level is sent, by a
\* dispatch of that level whose block contains a transaction with that
\* hash, the receipt built from the dispatch: the hex of the hash, the
\* block's number, the transaction's success and fail_reason, and verified
\* exactly for a Verify.  With a single commit-level waiter for HashA and
\* nothing sent, the Commit of block 10 with a successful HashA sends
\* {hex(HashA), 10, true, None, false}.
C9_DispatchOutcome ==
    /\ \A op \in Operations : \A w \in Processed :
          LET req == requests[w]
              new == NewSends(sent, AfterNewBlock(op).sent)
          IN  (req.kind = "Transaction" /\ Parked(Self, w)
                  /\ Confirms(op, req))
                  => \E i \in DOMAIN op.block.block_transactions :
                        LET e == op.block.block_transactions[i]
                        IN  /\ e.kind = "Tx"
                            /\ e.hash = req.hash
                            /\ Len(HexOf[req.hash]) = 2 * HASH_LEN
                            /\ [to |-> w,
                                value |->
                                    [tx_hash |-> HexOf[req.hash],
                                     block_number |->
                                         AsI64(op.block.block_number),
                                     success |-> e.success,
                                     fail_reason |-> e.fail_reason,
                                     verified |-> (op.action = "Verify"),
                                     prover_run |-> None],
                                at |-> "handle_new_block"] \in Range(new)
    /\ ( /\ requests = <<[kind |-> "Transaction", hash |-> HashA,
                          commit |-> TRUE]>>
         /\ sent = <<>> )
            => AfterNewBlock(CommitOfBlock10).sent =
                  <<[to |-> 1, value |-> ScenarioAOutcome,
                     at |-> "handle_new_block"]>>

\* Scenario A has run: the only waiter, a commit-level one for HashA, holds
\* the outcome of the Commit of block 10.
C9_Witness ==
    /\ requests = <<[kind |-> "Transaction", hash |-> HashA,
                     commit |-> TRUE]>>
    /\ sent = <<[to |-> 1, value |-> ScenarioAOutcome,
                 at |-> "handle_new_block"]>>

\* ------------------------------------------------------------------------
\* C10: one outcome for the whole bucket, in bucket order
\* ------------------------------------------------------------------------

\* The executed operations of op drain the bucket of key k in mapping m
Drains(op, m, k) ==
    \E i \in DOMAIN op.block.block_transactions :
        LET e == op.block.block_transactions[i]
        IN  MappingOfExecuted(op, e) = m /\ KeyOfExecuted(e) = k

\* C10: waiters stand in a bucket in the order their subscriptions were
\* processed, and a dispatch that drains a bucket sends to every waiter of
\* it once, in bucket order, the same value.
C10_Broadcast ==
    /\ \A m \in MappingNames : \A k \in DOMAIN Self[m] :
          \A i, j \in DOMAIN Self[m][k] :
              i < j => Self[m][k][i] < Self[m][k][j]
    /\ \A op \in Operations :
          LET new == NewSends(sent, AfterNewBlock(op).sent)
          IN  \A m \in MappingNames : \A k \in DOMAIN Self[m] :
                 Drains(op, m, k) =>
                    LET bucket == Self[m][k]
                        mine == SelectSeq(new,
                                    LAMBDA x : x.to \in Range(bucket))
                    IN  /\ [i \in DOMAIN mine |-> mine[i].to] = bucket
                        /\ \A i, j \in DOMAIN mine :
                              mine[i].value = mine[j].value

\* Scenario D has run: the first two subscriptions were for the same entity
\* and level, and one dispatch sent both the same value, first to the
\* first.
C10_Witness ==
    /\ Len(requests) >= 2
    /\ requests[1] = requests[2]
    /\ Len(sent) = 2
    /\ sent[1].to = 1
    /\ sent[2].to = 2
    /\ sent[1].at = "handle_new_block"
    /\ sent[2].at = "handle_new_block"
    /\ sent[1].value = sent[2].value

\* ------------------------------------------------------------------------
\* C11: a send to a receiver that is gone
\* ------------------------------------------------------------------------

\* How many sends of a log reached the receiver of waiter w
ReceivedCount(log, w) == Cardinality({i \in DOMAIN log : log[i].to = w})

\* The sends a step delivered to a live receiver
NewReceived(before, after) == SubSeq(after, Len(before) + 1, Len(after))

\* C11: a send to a waiter whose receiver is gone fails silently and is
\* made once.  A dispatch that drains a bucket removes the bucket and sends
\* once to every waiter of it, and every waiter of it whose receiver is
\* alive receives the value, whatever the number of gone receivers before
\* it in the bucket or in buckets of earlier entities of the block.  A
\* subscription whose receiver is gone and whose answer is in the store is
\* sent to once and registered nowhere.
C11_GoneReceiverIgnored ==
    /\ \A op \in LoopOperations :
          LET after == AfterNewBlock(op)
              new == NewSends(sent, after.sent)
              got == NewReceived(received, after.received)
          IN  \A m \in MappingNames : \A k \in DOMAIN Self[m] :
                 Drains(op, m, k) =>
                    /\ k \notin DOMAIN after[m]
                    /\ \A i \in DOMAIN Self[m][k] :
                          LET w == Self[m][k][i]
                          IN  /\ SentCount(new, w) = 1
                              /\ ReceivedCount(got, w) =
                                    IF w \in gone THEN 0 ELSE 1
    /\ CanSubscribe /\ NextWaiter \in gone =>
          \A req \in LoopRequests : \A db \in StoreViews(req) :
              LET after == AfterSubscription(req, db)
                  new == NewSends(sent, after.sent)
              IN  /\ after.received = received
                  /\ Len(new) <= 1
                  /\ Len(new) = 1 =>
                        /\ new[1].to = NextWaiter
                        /\ MappingsOf(after) = MappingsOf(Self)
                        /\ after.dropped = dropped

\* One bucket held waiter 1, whose receiver was gone, before waiter 2,
\* whose receiver was alive, and a priority operation later in the block
\* had waiter 3: the dispatch sent to all three and 2 and 3 received.
C11_Witness ==
    /\ Len(requests) = 3
    /\ requests[1] = requests[2]
    /\ requests[1].kind = "Transaction"
    /\ requests[3].kind = "PriorityOp"
    /\ gone = {1}
    /\ [i \in DOMAIN sent |-> sent[i].to] = <<1, 2, 3>>
    /\ \A i \in DOMAIN sent : sent[i].at = "handle_new_block"
    /\ [i \in DOMAIN received |-> received[i].to] = <<2, 3>>
    /\ \A m \in MappingNames : DOMAIN Self[m] = {}

\* ------------------------------------------------------------------------
\* C12: Scenario C, a verify-level subscription for priority operation 7
\* ------------------------------------------------------------------------

SerialId7 == Word64(0, 7)

ScenarioCRequest ==
    [kind |-> "PriorityOp", serial_id |-> SerialId7, commit |-> FALSE]

\* The store shows operation 7 executed in block 3 and no confirmed VERIFY
\* action of block 3
ScenarioCViews ==
    {db \in StoreViews(ScenarioCRequest) :
        /\ db.access_storage # Err
        /\ db.executed_op =
              Ok(Some([priority_op_serialid |-> SerialId7,
                       block_number |-> AsI64(3)]))
        /\ db.access_storage_verify # Err
        /\ db.stored_op # None => ~Unwrap(db.stored_op).confirmed}

\* The dispatches of block 3 of an action that contain operation 7
DispatchesOf7InBlock3(action) ==
    {op \in Operations :
        /\ op.action = action
        /\ op.block.block_number = 3
        /\ \E i \in DOMAIN op.block.block_transactions :
              op.block.block_transactions[i] =
                  [kind |-> "PriorityOp", serial_id |-> SerialId7]}

ScenarioCOutcome == [executed |-> TRUE, block |-> Some(AsI64(3))]

\* C12: where the bucket of operation 7 in prior_op_verify_subs has room, a
\* verify-level subscription for 7 that meets a store showing 7 executed in
\* block 3 and the VERIFY of block 3 not confirmed sends nothing and is
\* appended to that bucket, nothing else changing.  A waiter parked in that
\* bucket is not sent to by a Commit of block 3 that contains 7, which
\* leaves prior_op_verify_subs as it is, and is sent {executed: true,
\* block: 3} by a Verify of block 3 that contains 7.
C12_ScenarioC ==
    /\ (CanSubscribe /\ ~BucketFull(Self, ScenarioCRequest)) =>
          \A db \in ScenarioCViews :
              LET after == AfterSubscription(ScenarioCRequest, db)
              IN  /\ after.sent = sent
                  /\ after.dropped = dropped
                  /\ after.prior_op_verify_subs[SerialId7] =
                        Append(BucketFor(Self, ScenarioCRequest), NextWaiter)
                  /\ \A m \in MappingNames : \A k \in DOMAIN Self[m] :
                        <<m, k>> # <<"prior_op_verify_subs", SerialId7>>
                            => /\ k \in DOMAIN after[m]
                               /\ after[m][k] = Self[m][k]
    /\ \A w \in Processed :
          (requests[w] = ScenarioCRequest /\ Parked(Self, w)) =>
              /\ \A op \in DispatchesOf7InBlock3("Commit") :
                    LET after == AfterNewBlock(op)
                    IN  /\ SentCount(NewSends(sent, after.sent), w) = 0
                        /\ after.prior_op_verify_subs = prior_op_verify_subs
              /\ \A op \in DispatchesOf7InBlock3("Verify") :
                    LET after == AfterNewBlock(op)
                        mine == SelectSeq(NewSends(sent, after.sent),
                                          LAMBDA x : x.to = w)
                    IN  /\ mine = <<[to |-> w, value |-> ScenarioCOutcome,
                                     at |-> "handle_new_block"]>>
                        /\ ~Parked(after, w)

\* Scenario C has run: waiter 1 subscribed to operation 7 at verify level
\* and was parked, a commit-level waiter for 7 that subscribed after it was
\* released by the Commit of block 3, and then the Verify of block 3 sent
\* waiter 1 the outcome.
C12_Witness ==
    /\ requests = <<ScenarioCRequest,
                    [kind |-> "PriorityOp", serial_id |-> SerialId7,
                     commit |-> TRUE]>>
    /\ sent = <<[to |-> 2, value |-> ScenarioCOutcome,
                 at |-> "handle_new_block"],
                [to |-> 1, value |-> ScenarioCOutcome,
                 at |-> "handle_new_block"]>>

\* ------------------------------------------------------------------------
\* C13: the end of the loop
\* ------------------------------------------------------------------------

SomeFeedEnded ==
    feeds.new_block_stream = "ended" \/ feeds.subscription_stream = "ended"

BothFeedsEnded ==
    feeds.new_block_stream = "ended" /\ feeds.subscription_stream = "ended"

\* C13 as stated: the loop has terminated as soon as one of the two feeds
\* has ended, so that no input of the other feed is processed after it.
C13_Original == SomeFeedEnded => finished

\* C13: the loop has terminated exactly when both feeds have ended.  After
\* one feed has ended the loop still processes the inputs of the other:
\* every dispatch while only the subscription feed has ended, and the next
\* subscription while only the new-operation feed has ended.
C13_EndsWithBothFeeds ==
    /\ finished <=> BothFeedsEnded
    /\ ( /\ feeds.subscription_stream = "ended"
         /\ feeds.new_block_stream = "open" )
          => \A op \in LoopOperations : ENABLED NewOperationCommited(op)
    /\ ( /\ feeds.new_block_stream = "ended"
         /\ feeds.subscription_stream = "open"
         /\ CanSubscribe )
          => \A req \in LoopRequests : \A db \in StoreViews(req) :
                ENABLED EventSubscription(req, db)

\* The subscription feed has ended with a waiter still parked, the loop
\* has not terminated, and a dispatch that releases the waiter is the next
\* input it can process.
C13_Witness ==
    /\ feeds.subscription_stream = "ended"
    /\ feeds.new_block_stream = "open"
    /\ ~finished
    /\ \E w \in Processed : \E op \in LoopOperations :
          /\ Parked(Self, w)
          /\ Confirms(op, requests[w])
          /\ ENABLED NewOperationCommited(op)

\* ------------------------------------------------------------------------
\* C14: one input at a time, each feed in its own order
\* ------------------------------------------------------------------------

FeedNames == {"new_block_stream", "subscription_stream"}

\* How many items of a feed a history holds
YieldedOf(history, feed) ==
    Cardinality({i \in DOMAIN history : history[i].feed = feed})

\* C14: while a subscription is between its store query and its delivery
\* or registration, a step either leaves the four mappings, the sends and
\* the items yielded as they are (an item arriving on a stream) or is that
\* subscription's own delivery or registration, computed from the mappings
\* as they were at its store query; and the n-th item the loop handles of a
\* feed is the n-th item that arrived on that feed.
C14_OneAtATime ==
    [][ /\ pc # AtPoll =>
            \/ /\ pc' = pc
               /\ yielded' = yielded
               /\ Self' = Self
               /\ requests' = requests
            \/ /\ pc' = AtPoll
               /\ yielded' = yielded
               /\ Self' = handle_subscription(Self, pc.new_sub, pc.db)
               /\ requests' = Append(requests, pc.input)
        /\ yielded' # yielded =>
            \E feed \in FeedNames :
                yielded' = Append(yielded,
                                  [feed |-> feed,
                                   n |-> YieldedOf(yielded, feed) + 1])
      ]_vars

\* A commit-level subscription for HashA has made its store query and has
\* not yet registered, while the Commit of a block with HashA and another
\* subscription have arrived and wait on their streams.
C14_Witness ==
    /\ pc # AtPoll
    /\ pc.input.commit
    /\ pending.new_block_stream # <<>>
    /\ Confirms(Head(pending.new_block_stream).input, pc.input)
    /\ pending.subscription_stream # <<>>
    /\ requests = <<>>

\* ------------------------------------------------------------------------
\* C15: the four mappings are independent
\* ------------------------------------------------------------------------

\* The kinds of executed operations a block holds
KindsIn(op) ==
    {op.block.block_transactions[i].kind
        : i \in DOMAIN op.block.block_transactions}

\* The mapping and key each executed operation of a block names
Named(op) ==
    {<<MappingOfExecuted(op, op.block.block_transactions[i]),
       KeyOfExecuted(op.block.block_transactions[i])>>
        : i \in DOMAIN op.block.block_transactions}

\* What a dispatch of op that takes the notifier from self to after may
\* touch
DispatchFrame(op, self, after) ==
    LET new == NewSends(self.sent, after.sent)
        named == Named(op)
    IN  /\ op.action = "Commit" =>
              /\ after.tx_verify_subs = self.tx_verify_subs
              /\ after.prior_op_verify_subs = self.prior_op_verify_subs
        /\ op.action = "Verify" =>
              /\ after.tx_commit_subs = self.tx_commit_subs
              /\ after.prior_op_commit_subs = self.prior_op_commit_subs
        /\ "PriorityOp" \notin KindsIn(op) =>
              /\ after.prior_op_commit_subs = self.prior_op_commit_subs
              /\ after.prior_op_verify_subs = self.prior_op_verify_subs
        /\ "Tx" \notin KindsIn(op) =>
              /\ after.tx_commit_subs = self.tx_commit_subs
              /\ after.tx_verify_subs = self.tx_verify_subs
        /\ \A m \in MappingNames :
              /\ DOMAIN after[m] \subseteq DOMAIN self[m]
              /\ \A k \in DOMAIN self[m] :
                    <<m, k>> \notin named =>
                        /\ k \in DOMAIN after[m]
                        /\ after[m][k] = self[m][k]
        /\ \A i \in DOMAIN new :
              \E p \in named :
                  /\ p[2] \in DOMAIN self[p[1]]
                  /\ new[i].to \in Range(self[p[1]][p[2]])

\* C15: a Commit leaves tx_verify_subs and prior_op_verify_subs as they
\* are and a Verify leaves tx_commit_subs and prior_op_commit_subs as they
\* are; a block without priority operations leaves both priority-op
\* mappings, and a block without transactions both transaction mappings,
\* as they are; a dispatch adds no key, keeps every bucket whose mapping
\* and key no executed operation of the block names, and sends only to
\* waiters of the buckets the block names.
C15_Independent ==
    \A op \in Operations : DispatchFrame(op, Self, AfterNewBlock(op))

\* Waiter 1 is parked at commit level and waiter 2 at verify level for the
\* same transaction; a Verify of a block with the transaction has released
\* waiter 2 only, and waiter 1 is still where it was.
C15_Witness ==
    /\ Len(requests) = 2
    /\ requests[1].kind = "Transaction"
    /\ requests[1].commit
    /\ requests[2] = [requests[1] EXCEPT !.commit = FALSE]
    /\ Len(sent) = 1
    /\ sent[1].to = 2
    /\ sent[1].at = "handle_new_block"
    /\ sent[1].value.verified
    /\ tx_commit_subs = [k \in {requests[1].hash} |-> <<1>>]
    /\ DOMAIN tx_verify_subs = {}

\* ------------------------------------------------------------------------
\* C16: when a priority-op subscription is answered at once
\* ------------------------------------------------------------------------

PriorityOpRequests ==
    {req \in SubscriptionRequests : req.kind = "PriorityOp"}

\* The store's answer holds the executed record of the subscription's own
\* operation
StoreGaveExecutedOpOf(req, db) ==
    /\ LookupExecutedOp(db) # None
    /\ Unwrap(LookupExecutedOp(db)).priority_op_serialid = req.serial_id

\* The store's answer holds a confirmed VERIFY action of the record's block
StoreGaveConfirmedVerify(db) ==
    /\ LookupBlockVerify(db) # None
    /\ Unwrap(LookupBlockVerify(db)).block_number =
          AsU32(Unwrap(LookupExecutedOp(db)).block_number)
    /\ Unwrap(LookupBlockVerify(db)).confirmed

\* C16 as stated: a priority-op subscription is sent {executed: true,
\* block: the stored block number} at once if and only if the store gives
\* the executed record of the operation and the subscription is
\* commit-level or the store gives a confirmed VERIFY action of the
\* record's block; otherwise nothing is sent and the waiter is appended to
\* its bucket in the priority-op mapping of its level.
C16_Original ==
    CanSubscribe =>
        \A req \in PriorityOpRequests : \A db \in StoreViews(req) :
            LET after == AfterSubscription(req, db)
            IN  IF /\ StoreGaveExecutedOpOf(req, db)
                   /\ (req.commit \/ StoreGaveConfirmedVerify(db))
                THEN /\ NewSends(sent, after.sent) =
                          <<[to |-> NextWaiter,
                             value |-> StoredValue(req, db),
                             at |-> "handle_subscription"]>>
                     /\ MappingsOf(after) = MappingsOf(Self)
                ELSE /\ after.sent = sent
                     /\ MappingsOf(after) =
                          WithAppended(Self, req, NextWaiter)

\* ------------------------------------------------------------------------
\* C18: the identity a priority-op subscription is answered from
\* ------------------------------------------------------------------------

\* C18 as stated: a priority-op subscription that is answered at once is
\* answered from the stored execution of its own 64-bit serial id.
C18_Original ==
    CanSubscribe =>
        \A req \in PriorityOpRequests : \A db \in StoreViews(req) :
            AfterSubscription(req, db).sent # sent
                => StoreGaveExecutedOpOf(req, db)

\* ------------------------------------------------------------------------
\* C17: no expiry
\* ------------------------------------------------------------------------

\* C17: a parked waiter stays in the same place of the same bucket and is
\* not sent to by a dispatch that does not contain its entity at its
\* level, by a subscription, whatever the store answers, and by a caller
\* dropping a receiver, its own included; so a dispatch that takes it out
\* of its bucket contains its entity at its level.
C17_NoExpiry ==
    \A w \in Processed :
        Parked(Self, w) =>
            /\ \A op \in LoopOperations :
                  ~Confirms(op, requests[w]) =>
                      LET after == AfterNewBlock(op)
                      IN  /\ Places(after, w) = Places(Self, w)
                          /\ SentCount(NewSends(sent, after.sent), w) = 0
            /\ CanSubscribe =>
                  \A req \in LoopRequests : \A db \in StoreViews(req) :
                      LET after == AfterSubscription(req, db)
                      IN  /\ Places(after, w) = Places(Self, w)
                          /\ SentCount(NewSends(sent, after.sent), w) = 0
            /\ \A v \in 1..MaxWaiters :
                  LET after == ReceiverDropped(Self, v)
                  IN  /\ Places(after, w) = Places(Self, w)
                      /\ after.sent = sent
                      /\ after.dropped = dropped

\* Waiter 1 is parked at verify level for a transaction and its receiver
\* is gone; two later subscriptions were processed and a Commit of a block
\* with the transaction released the commit-level waiter 2: waiter 1 is
\* still first in its bucket and was never sent to.
C17_Witness ==
    /\ Len(requests) = 3
    /\ requests[1].kind = "Transaction"
    /\ ~requests[1].commit
    /\ requests[2] = [requests[1] EXCEPT !.commit = TRUE]
    /\ 1 \in gone
    /\ Places(Self, 1) = {<<"tx_verify_subs", requests[1].hash, 1>>}
    /\ SentCount(sent, 1) = 0
    /\ \E i \in DOMAIN sent :
          sent[i].to = 2 /\ sent[i].at = "handle_new_block"

\* ------------------------------------------------------------------------
\* C19: where a processed waiter is
\* ------------------------------------------------------------------------

\* Waiter w was consumed by a send
Consumed(w) == SentCount(sent, w) >= 1

\* Waiter w stands once in the bucket of its own identity, kind and level
\* and nowhere else
InOwnBucket(w) ==
    /\ Cardinality(Places(Self, w)) = 1
    /\ \A p \in Places(Self, w) :
          /\ p[1] = MappingFor(requests[w])
          /\ p[2] = KeyFor(requests[w])

\* How many of three conditions hold
HowMany(a, b, c) ==
    (IF a THEN 1 ELSE 0) + (IF b THEN 1 ELSE 0) + (IF c THEN 1 ELSE 0)

\* C19: every waiter whose subscription has been processed is in exactly
\* one of three conditions: consumed by a send, once in the bucket of its
\* own identity in the mapping of its own kind and level and in no other
\* place, or dropped at a full bucket; a waiter that is in any place of the
\* mappings is in that one place only; and a waiter whose subscription has
\* not been processed is in none of the three.
C19_ExactlyOnePlace ==
    /\ \A w \in Processed :
          /\ HowMany(Consumed(w), InOwnBucket(w), w \in dropped) = 1
          /\ Parked(Self, w) => InOwnBucket(w)
    /\ \A w \in (1..MaxWaiters) \ Processed :
          /\ ~Consumed(w)
          /\ ~Parked(Self, w)
          /\ w \notin dropped

\* Three subscriptions for one priority operation: waiter 1 was consumed
\* by a dispatch, and waiters 2 and 3 stand each in the bucket of the
\* operation in the mapping of its own level, 2 at commit and 3 at verify
\* level.
C19_Witness ==
    /\ Len(requests) = 3
    /\ \A w \in 1..3 : /\ requests[w].kind = "PriorityOp"
                       /\ requests[w].serial_id = requests[1].serial_id
    /\ requests[2].commit
    /\ ~requests[3].commit
    /\ Consumed(1)
    /\ sent[1].at = "handle_new_block"
    /\ InOwnBucket(2)
    /\ InOwnBucket(3)
    /\ dropped = {}

====
